---- MODULE Spec2Model ----
(***************************************************************************)
(* The AI Engine's request-dispatch-and-monitoring layer of ClarityForge:  *)
(*   - the Remote Inference Client  (_hf_request, generate_response,       *)
(*     classify, wrapped by monitor_hf_api_calls),                         *)
(*   - the Error Tracker            (ErrorTracker.track_error),            *)
(*   - the Analysis Dispatcher      (AIEngine.analyze_content).            *)
(*                                                                         *)
(* Confidence values are kept in thousandths (0.6 is 600) so that the      *)
(* arithmetic of the code stays in the integers.  Exceptions are records   *)
(* [cls, status, msg]; a Python `except C` clause is IsInstance(e, C).     *)
(***************************************************************************)
EXTENDS Integers, Sequences, FiniteSets, TLC

VARIABLES
    token,          \* os.environ.get("HUGGINGFACE_API_TOKEN")
    pc,             \* position of the request-handling code
    top,            \* the operation in progress: "analyze", "direct" or "none"
    via,            \* the function that called _hf_request
    req,            \* the AnalysisRequest being analysed
    model_id,       \* analyze_content's resolved model
    hf,             \* the frame of the current / last _hf_request invocation
    exc,            \* the exception in flight
    response,       \* generate_response's return value (length of the text)
    result,         \* what analyze_content gave its caller
    last_errors,    \* ErrorTracker.last_errors
    error_counts,   \* ErrorTracker.error_counts
    tracked,        \* history variable: every track_error call, in order
    calls,          \* history variable: the remote calls of this operation
    opposts,        \* history variable: the POSTs of this operation
    nops,           \* operations started so far
    tpc,            \* per thread: position inside track_error
    tentry,         \* per thread: the error_entry local
    tcount,         \* per thread: the value read by error_counts.get
    tcalls,         \* per thread: track_error calls started
    side,           \* history variable: what the last track_error call sent out
    health,         \* the components and the overall status of a health check
    http,           \* the answer of an HTTP endpoint
    summary         \* what the last get_error_summary call returned

vars == <<token, pc, top, via, req, model_id, hf, exc, response, result,
          last_errors, error_counts, tracked, calls, opposts, nops,
          tpc, tentry, tcount, tcalls, side, health, http, summary>>

pipeVars    == <<pc, top, via, req, model_id, hf, exc, response, result,
                 calls, opposts, health, http>>
trackerVars == <<last_errors, error_counts, tracked, side, summary>>
threadVars  == <<tpc, tentry, tcount, tcalls>>

----------------------------------------------------------------------------
(* Bounds *)

MaxOps        == 1      \* operations (analyses, direct invocations) per run
MaxRetriesArg == 3      \* largest `retries` argument a direct caller passes
MaxTracks     == 102    \* track_error calls of the sequential workload
FreeCalls     == 2      \* leading calls of the sequential workload that pick any failure
Warmup        == 100    \* sequential calls before the threads start
MaxNotified    == 6      \* track_error calls of the side-channel workload
CallsPerThread == 1     \* track_error calls each thread makes

(* Program constants *)

max_error_history == 100
IssueThreshold    == 5
ProbeRetries      == 1
RecentLimit       == 10
DefaultRetries    == 3

None     == "None"
NoneBody == [kind |-> "None", n |-> 0]      \* Python's None as a return value
NoFrame  == [model_id |-> None, retries |-> 0, i |-> 0, posts |-> 0,
             status |-> 0, body |-> NoneBody, seen200 |-> FALSE,
             afterOK |-> 0, transport |-> FALSE,
             outcome |-> "none", value |-> NoneBody,
             t0 |-> 0, cause |-> [cls |-> None, status |-> 0, msg |-> ""],
             first |-> None]
NoExc    == [cls |-> None, status |-> 0, msg |-> ""]
NoResult == [kind |-> "none", confidence |-> 0, error |-> "", status |-> "",
             analysis_type |-> "", model_used |-> "", recommendations |-> <<>>]
NoReq    == [analysis_type |-> None, model |-> None]
NoSide   == [monitoring |-> FALSE, issues |-> FALSE, webhook |-> "none",
             ticket |-> "none", count |-> 0, escaped |-> FALSE]
NoHealth == [dispatcher |-> "", remote_api |-> "", models |-> "",
             overall |-> ""]
NoBody   == [content |-> "missing", analysis_type |-> "missing",
             model |-> None]
NoHttp   == [request |-> NoBody, code |-> 0, status |-> ""]
NoSummary == [total_errors |-> -1, error_counts |-> <<>>,
              recent_errors |-> <<>>, error_rate |-> ""]

DefaultModel  == "google/flan-t5-base"
ClassifyModel == "facebook/bart-large-mnli"
supported_models == {"google/flan-t5-base", "facebook/bart-large-mnli"}

----------------------------------------------------------------------------
(* Inputs *)

Tokens        == {None, "", "hf_token"}
RequestModels == {None, "", "google/flan-t5-base", "facebook/bart-large-mnli",
                  "unsupported/model"}
AnalysisTypes == {"code_review", "requirement_extraction",
                  "tech_recommendation", "risk_assessment", "general",
                  "unknown_type"}
Statuses      == {200, 204, 402, 404, 429, 503}
TextLens      == {0, 12, 300, 475, 1000}

\* What a 200 response can carry: the generation shape, the classification
\* shape (n labels scoring above 0.5), other valid JSON, or no JSON at all.
Bodies == [kind : {"gen"}, n : TextLens]
            \cup [kind : {"cls"}, n : 0..1]
            \cup [kind : {"other", "notjson"}, n : {0}]

Requests == [analysis_type : AnalysisTypes, model : RequestModels]

----------------------------------------------------------------------------
(* Python's exception classes *)

Exc(c, s, m) == [cls |-> c, status |-> s, msg |-> m]

\* requests' JSONDecodeError derives from both RequestException and
\* json.JSONDecodeError, which is a ValueError.
Bases(c) ==
    CASE c = "ValueError"        -> {"ValueError", "Exception"}
      [] c = "JSONDecodeError"   -> {"JSONDecodeError", "ValueError",
                                     "RequestException", "Exception"}
      [] c = "HTTPError"         -> {"HTTPError", "RequestException", "Exception"}
      [] c = "ConnectionError"   -> {"ConnectionError", "RequestException",
                                     "Exception"}
      [] c = "TypeError"         -> {"TypeError", "Exception"}
      [] c = "KeyError"          -> {"KeyError", "Exception"}
      [] c = "UnboundLocalError" -> {"UnboundLocalError", "Exception"}
      [] OTHER                   -> {}

IsInstance(e, c) == c \in Bases(e.cls)

Min(a, b) == IF a < b THEN a ELSE b
Max(a, b) == IF a > b THEN a ELSE b

----------------------------------------------------------------------------
(* Error Tracker: ErrorTracker.track_error, run to completion *)

\* error_key = f"{error_type}:{model_id}"
ErrorKey(error_type, mid) == error_type \o ":" \o mid

\* self.error_counts.get(error_key, 0)
CountOf(counts, key) == IF key \in DOMAIN counts THEN counts[key] ELSE 0

\* self.error_counts[error_key] = value
SetCount(counts, key, value) ==
    [k \in DOMAIN counts \cup {key} |-> IF k = key THEN value ELSE counts[k]]

\* mutant: the count is overwritten instead of incremented
IncrementOverwrite(counts, key) == SetCount(counts, key, 1)

\* mutant: the count moves the wrong way
IncrementDown(counts, key) == SetCount(counts, key, CountOf(counts, key) - 1)

\* self.error_counts[error_key] = self.error_counts.get(error_key, 0) + 1
Increment(counts, key) == SetCount(counts, key, CountOf(counts, key) + 1)

\* mutant: the newest entry is evicted
EvictNewest(h) ==
    IF Len(h) > max_error_history THEN SubSeq(h, 1, Len(h) - 1) ELSE h

\* if len(self.last_errors) > self.max_error_history: self.last_errors.pop(0)
Evict(h) == IF Len(h) > max_error_history THEN Tail(h) ELSE h

\* the error_entry dict; the timestamp is the position of the call in time
ErrorEntry(ts, error_type, mid, message) ==
    [timestamp |-> ts, error_type |-> error_type, model_id |-> mid,
     error_message |-> message]

\* the history after track_error's append and eviction
TrackedHistory(h, entry) == Evict(Append(h, entry))

\* What the two outbound calls of a track_error call can do: the monitoring
\* webhook answers 200, answers another status, or requests.post raises; the
\* issue tracker answers 201, answers another status, or requests.post raises.
WebhookOutcomes == {"sent", "rejected", "raised"}
TicketOutcomes  == {"created", "rejected", "raised"}

\* the exception of a failed outbound call
SideExc == Exc("ConnectionError", 0, "side channel unreachable")

\* error_entry["error_type"] in ["AUTH_ERROR", "QUOTA_EXCEEDED"]
CriticalTypes == {"AUTH_ERROR", "QUOTA_EXCEEDED"}

\* mutant: the ticket is due one occurrence early
IssueDueEarly(error_type, count) ==
    count >= IssueThreshold - 1 \/ error_type \in CriticalTypes

\* line 122: if error_count >= 5 or error_entry["error_type"] in [...]
IssueDue(error_type, count) ==
    count >= IssueThreshold \/ error_type \in CriticalTypes

\* `except Exception` of _send_to_issue_tracker
IssueTrackerCatches(e) == IsInstance(e, "Exception")

\* mutant: _send_to_monitoring catches HTTP errors only
MonitoringCatchesHTTPErrorOnly(e) == IsInstance(e, "HTTPError")

\* `except Exception` of _send_to_monitoring
MonitoringCatches(e) == IsInstance(e, "Exception")

\* _send_to_issue_tracker: "none" when no POST is made, else its outcome
SendToIssueTracker(error_type, count, iss, i) ==
    IF iss /\ IssueDue(error_type, count) THEN i ELSE "none"

\* _send_to_monitoring: the webhook POST when configured, then, unless that
\* POST raised, _send_to_issue_tracker (line 106 is inside the same try).
\* `counts` is error_counts as the call finds it, after the increment.
SendToMonitoring(error_type, mid, counts, mon, iss, w, i) ==
    LET webhook == IF mon THEN w ELSE "none"
        reached == webhook # "raised"
        count   == IF reached /\ iss
                   THEN CountOf(counts, ErrorKey(error_type, mid)) ELSE 0
        ticket  == IF reached
                   THEN SendToIssueTracker(error_type, count, iss, i)
                   ELSE "none"
        inner   == ticket = "raised" /\ ~IssueTrackerCatches(SideExc)
    IN [monitoring |-> mon, issues |-> iss, webhook |-> webhook,
        ticket |-> ticket, count |-> count,
        escaped |-> (webhook = "raised" \/ inner) /\ ~MonitoringCatches(SideExc)]

\* track_error in an environment where the monitoring webhook is configured
\* or not (mon), the issue tracker is configured or not (iss), and the two
\* outbound calls end as w and i
TrackErrorWith(error_type, mid, message, mon, iss, w, i) ==
    LET entry  == ErrorEntry(Len(tracked) + 1, error_type, mid, message)
        counts == Increment(error_counts, ErrorKey(error_type, mid))
    IN
    /\ last_errors'  = TrackedHistory(last_errors, entry)
    /\ error_counts' = counts
    /\ tracked'      = Append(tracked, entry)
    /\ side'         = SendToMonitoring(error_type, mid, counts, mon, iss, w, i)
    /\ summary'      = NoSummary

\* track_error, whatever the environment and the outbound calls do
TrackError(error_type, mid, message) ==
    \E mon \in BOOLEAN, iss \in BOOLEAN :
        \E w \in IF mon THEN WebhookOutcomes ELSE {"sent"},
           i \in IF iss THEN TicketOutcomes ELSE {"created"} :
            TrackErrorWith(error_type, mid, message, mon, iss, w, i)

----------------------------------------------------------------------------
(* monitor_hf_api_calls: the classification of a failed invocation *)

StatusErrorType(s) ==
    IF s = 429 THEN "RATE_LIMIT"
    ELSE IF s = 503 THEN "SERVICE_UNAVAILABLE"
    ELSE IF s = 402 THEN "QUOTA_EXCEEDED"
    ELSE "HTTP_ERROR"

\* mutant: the RequestException clause is missing
ErrorTypeWithoutNetworkClause(e) ==
    IF IsInstance(e, "ValueError") THEN "AUTH_ERROR"
    ELSE IF IsInstance(e, "HTTPError") THEN StatusErrorType(e.status)
    ELSE "UNKNOWN_ERROR"

\* the except clauses of the wrapper, in their order
ErrorType(e) ==
    IF IsInstance(e, "ValueError") THEN "AUTH_ERROR"
    ELSE IF IsInstance(e, "HTTPError") THEN StatusErrorType(e.status)
    ELSE IF IsInstance(e, "RequestException") THEN "NETWORK_ERROR"
    ELSE "UNKNOWN_ERROR"

TrackedMessage(e) ==
    IF ~IsInstance(e, "ValueError") /\ IsInstance(e, "HTTPError")
    THEN "HTTP " \o ToString(e.status) \o ": " \o e.msg
    ELSE e.msg

----------------------------------------------------------------------------
(* _hf_request *)

\* mutant: an empty token passes the check
TokenMissingNoneOnly(t) == t = None

\* `if not hf_token`
TokenMissing(t) == t = None \/ t = ""

\* requests' Response.raise_for_status raises for 4xx and 5xx only
RaisesForStatus(s) == s >= 400 /\ s < 600

HTTPErrorOf(s) == Exc("HTTPError", s, ToString(s) \o " Error")

NewFrame(mid, retries) ==
    [model_id |-> mid, retries |-> retries, i |-> 0, posts |-> 0,
     status |-> 0, body |-> NoneBody, seen200 |-> FALSE,
     afterOK |-> 0, transport |-> FALSE,
     outcome |-> "running", value |-> NoneBody,
     t0 |-> Len(tracked), cause |-> NoExc,
     \* history: the model of the first invocation of the operation
     first |-> IF hf.model_id = None THEN mid ELSE hf.first]

\* the call of the decorated _hf_request(model_id, data, retries)
Invoke(mid, retries, caller) ==
    /\ hf'  = NewFrame(mid, retries)
    /\ via' = caller
    /\ pc'  = "hf_enter"
    /\ calls' = Append(calls, caller)

\* lines 275-279: build the URL, read the token, fail without one
HfEnter ==
    /\ pc = "hf_enter"
    /\ IF TokenMissing(token)
       THEN /\ exc' = Exc("ValueError", 0,
                          "HUGGINGFACE_API_TOKEN environment variable not set")
            /\ pc'  = "hf_except"
       ELSE /\ pc' = "hf_loop"
            /\ UNCHANGED exc
    /\ UNCHANGED <<token, top, via, req, model_id, hf, response, result,
                   trackerVars, calls, opposts, nops, threadVars,
                   health, http>>

\* `if response.status_code == 200`
Succeeded(s) == s = 200

\* mutant: one round too many
LoopContinuesInclusive(f) == f.i <= f.retries

\* `for i in range(retries)` has another round
LoopContinues(f) == f.i < f.retries

\* one round of the loop: the POST and the test of its status
HfAttempt ==
    /\ pc = "hf_loop"
    /\ LoopContinues(hf)
    /\ \/ \* requests.post raises: no response was received
          /\ exc' = Exc("ConnectionError", 0, "Connection refused")
          /\ hf'  = [hf EXCEPT !.posts = @ + 1, !.transport = TRUE,
                               !.afterOK = @ + (IF hf.seen200 THEN 1 ELSE 0)]
          /\ pc'  = "hf_except"
       \/ \E s \in Statuses, b \in Bodies :
            LET f == [hf EXCEPT !.posts = @ + 1, !.status = s,
                                !.body = IF s = 200 THEN b ELSE @,
                                !.afterOK = @ + (IF hf.seen200 THEN 1 ELSE 0)]
            IN
            IF Succeeded(s)
            THEN IF b.kind = "notjson"
                 THEN \* response.json() raises
                      /\ hf'  = [f EXCEPT !.seen200 = (s = 200)]
                      /\ exc' = Exc("JSONDecodeError", 0, "Expecting value")
                      /\ pc'  = "hf_except"
                 ELSE /\ hf'  = [f EXCEPT !.seen200 = (s = 200), !.value = b]
                      /\ pc'  = "hf_return"
                      /\ UNCHANGED exc
            ELSE /\ b = CHOOSE x \in Bodies : TRUE
                 /\ hf' = [f EXCEPT !.i = @ + 1,
                                    !.seen200 = @ \/ (s = 200)]
                 /\ UNCHANGED <<pc, exc>>
    /\ opposts' = opposts + 1
    /\ UNCHANGED <<token, top, via, req, model_id, response, result,
                   trackerVars, calls, nops, threadVars,
                   health, http>>

\* line 286, after the loop: response.raise_for_status()
HfExhausted ==
    /\ pc = "hf_loop"
    /\ ~LoopContinues(hf)
    /\ IF hf.posts = 0
       THEN \* the loop body never ran: `response` is unbound
            /\ exc' = Exc("UnboundLocalError", 0,
                          "local variable 'response' referenced before assignment")
            /\ pc'  = "hf_except"
            /\ UNCHANGED hf
       ELSE IF RaisesForStatus(hf.status)
       THEN /\ exc' = HTTPErrorOf(hf.status)
            /\ pc'  = "hf_except"
            /\ UNCHANGED hf
       ELSE \* nothing raised: the function falls off its end
            /\ hf' = [hf EXCEPT !.value = NoneBody]
            /\ pc' = "hf_return"
            /\ UNCHANGED exc
    /\ UNCHANGED <<token, top, via, req, model_id, response, result,
                   trackerVars, calls, opposts, nops, threadVars,
                   health, http>>

\* the wrapper's except clauses: track the error, then re-raise it
WrapperExcept ==
    /\ pc = "hf_except"
    /\ TrackError(ErrorType(exc), hf.model_id, TrackedMessage(exc))
    /\ hf' = [hf EXCEPT !.outcome = "raised", !.cause = exc]
    \* the bare `raise` is reached only when track_error returned
    /\ exc' = IF side'.escaped THEN SideExc ELSE exc
    /\ pc' = "caller_except"
    /\ UNCHANGED <<token, top, via, req, model_id, response, result,
                   calls, opposts, nops, threadVars,
                   health, http>>

\* the wrapper's success path: log and return the result
WrapperReturn ==
    /\ pc = "hf_return"
    /\ hf' = [hf EXCEPT !.outcome = "returned"]
    /\ pc' = "caller_return"
    /\ UNCHANGED <<token, top, via, req, model_id, exc, response, result,
                   trackerVars, calls, opposts, nops, threadVars,
                   health, http>>

----------------------------------------------------------------------------
(* AIEngine.analyze_content and its strategies *)

\* model_id = req.model or "google/flan-t5-base"
ResolveModel(m) == IF m = None \/ m = "" THEN DefaultModel ELSE m

\* mutant: the registry check is dropped
SupportedAlways(mid) == TRUE

\* `model_id not in self.supported_models`, negated
Supported(mid) == mid \in supported_models

\* mutant: the handler catches validation errors only
AnalyzeCatchesValueErrorOnly(e) == IsInstance(e, "ValueError")

\* `except Exception as e` of analyze_content
AnalyzeCatches(e) == IsInstance(e, "Exception")

\* results["analysis_type"] as each strategy sets it
ResultType(t) ==
    IF t \in {"code_review", "requirement_extraction", "tech_recommendation",
              "risk_assessment"}
    THEN t ELSE "general"

\* mutant: the upper clip is missing
CodeReviewConfidenceUnclipped(len) == Max(600, 2 * len)

\* mutant: the floor is missing
CodeReviewConfidenceNoFloor(len) == Min(950, 2 * len)

\* _analyze_code_review: min(0.95, max(0.6, len(response) / 500))
CodeReviewConfidence(len) == Min(950, Max(600, 2 * len))

\* mutant: the classification does not count
RequirementsConfidenceFixed(nlabels) == 800

\* _analyze_requirements: 0.8 if classifications else 0.6
RequirementsConfidence(nlabels) == IF nlabels > 0 THEN 800 ELSE 600

\* the confidence of the strategies that call generate_response only
GenerateConfidence(t, len) ==
    IF t = "code_review" THEN CodeReviewConfidence(len)
    ELSE IF t = "tech_recommendation" THEN 750
    ELSE IF t = "risk_assessment" THEN 700
    ELSE 800

\* mutant: every analysis gets the recommendation of the degraded result
GenerateRecommendationsGeneric(t) ==
    <<"Review input parameters and try again">>

\* _generate_recommendations
GenerateRecommendations(t) ==
    IF t = "code_review"
    THEN <<"Consider implementing automated testing",
           "Review code documentation",
           "Ensure proper error handling">>
    ELSE IF t = "requirement_extraction"
    THEN <<"Prioritize requirements by business value",
           "Validate requirements with stakeholders",
           "Consider technical feasibility">>
    ELSE IF t = "tech_recommendation"
    THEN <<"Evaluate team expertise with recommended technologies",
           "Consider scalability requirements",
           "Assess maintenance and support costs">>
    ELSE IF t = "risk_assessment"
    THEN <<"Develop contingency plans for high-risk items",
           "Regular risk assessment reviews",
           "Implement monitoring and alerting">>
    ELSE <<>>

\* the AnalysisResult of the try block
SuccessResult(t, mid, confidence) ==
    [kind |-> "success", confidence |-> confidence, error |-> "",
     status |-> "", analysis_type |-> ResultType(t), model_used |-> mid,
     recommendations |-> GenerateRecommendations(t)]

\* mutant: the result reports the message given to the tracker
DegradedResultTrackedMessage(e) ==
    [kind |-> "degraded", confidence |-> 0, error |-> TrackedMessage(e),
     status |-> "failed", analysis_type |-> "", model_used |-> "",
     recommendations |-> <<"Review input parameters and try again">>]

\* the AnalysisResult of the except block
DegradedResult(e) ==
    [kind |-> "degraded", confidence |-> 0, error |-> e.msg,
     status |-> "failed", analysis_type |-> "", model_used |-> "",
     recommendations |-> <<"Review input parameters and try again">>]

\* an exception analyze_content did not catch reaches its caller
Escaped(e) == [NoResult EXCEPT !.kind = "raised", !.error = e.msg]

\* data[0]["generated_text"] in generate_response
GenerateShapeError(body) ==
    IF body.kind = "gen" THEN NoExc
    ELSE IF body.kind = "None"
    THEN Exc("TypeError", 0, "'NoneType' object is not subscriptable")
    ELSE Exc("KeyError", 0, "0")

\* data["labels"], data["scores"] in classify
ClassifyShapeError(body) ==
    IF body.kind = "cls" THEN NoExc
    ELSE IF body.kind = "None"
    THEN Exc("TypeError", 0, "'NoneType' object is not subscriptable")
    ELSE IF body.kind = "gen"
    THEN Exc("TypeError", 0, "list indices must be integers or slices, not str")
    ELSE Exc("KeyError", 0, "'labels'")

\* analyze_content hands its caller the result (or the exception)
Finish(r) ==
    /\ result' = r
    /\ pc'  = "done"
    /\ UNCHANGED top

\* analyze_content up to its first remote call
AnalyzeContent ==
    /\ pc = "idle"
    /\ nops < MaxOps
    /\ \E r \in Requests :
        /\ req' = r
        /\ model_id' = ResolveModel(r.model)
        /\ top' = "analyze"
        /\ nops' = nops + 1
        /\ result' = NoResult
        /\ response' = 0
        /\ opposts' = 0
        /\ IF ~Supported(ResolveModel(r.model))
           THEN /\ exc' = Exc("ValueError", 0,
                              "Unsupported model: " \o ResolveModel(r.model))
                /\ pc'  = "caller_except"
                /\ hf'  = NoFrame
                /\ via' = "none"
                /\ calls' = <<>>
           ELSE \* every strategy starts with generate_response(prompt)
                /\ hf'  = NewFrame(DefaultModel, DefaultRetries)
                /\ via' = "generate"
                /\ pc'  = "hf_enter"
                /\ calls' = <<"generate">>
                /\ exc' = NoExc
    /\ UNCHANGED <<token, trackerVars, threadVars,
                   health, http>>

\* mutant: every strategy classifies
NeedsClassificationAlways(t) == TRUE

\* only _analyze_requirements calls classify(content)
NeedsClassification(t) == t = "requirement_extraction"

\* generate_response returned to its strategy
GenerateReturn ==
    /\ pc = "caller_return"
    /\ via = "generate"
    /\ LET e == GenerateShapeError(hf.value) IN
       IF e # NoExc
       THEN /\ exc' = e
            /\ pc'  = "caller_except"
            /\ UNCHANGED <<via, hf, response, result, calls>>
       ELSE IF NeedsClassification(req.analysis_type)
       THEN \* classifications = classify(content)
            /\ response' = hf.value.n
            /\ Invoke(ClassifyModel, DefaultRetries, "classify")
            /\ UNCHANGED <<exc, result>>
       ELSE /\ response' = hf.value.n
            /\ Finish(SuccessResult(req.analysis_type, model_id,
                        GenerateConfidence(req.analysis_type, hf.value.n)))
            /\ UNCHANGED <<via, hf, exc, calls>>
    /\ UNCHANGED <<token, top, req, model_id, trackerVars, opposts, nops, threadVars,
                   health, http>>

\* classify returned to _analyze_requirements
ClassifyReturn ==
    /\ pc = "caller_return"
    /\ via = "classify"
    /\ LET e == ClassifyShapeError(hf.value) IN
       IF e # NoExc
       THEN /\ exc' = e
            /\ pc'  = "caller_except"
            /\ UNCHANGED result
       ELSE /\ Finish(SuccessResult(req.analysis_type, model_id,
                        RequirementsConfidence(hf.value.n)))
            /\ UNCHANGED exc
    /\ UNCHANGED <<token, top, via, req, model_id, hf, response, trackerVars,
                   calls, opposts, nops, threadVars,
                   health, http>>

\* an exception reached the try block of analyze_content
AnalyzeExcept ==
    /\ pc = "caller_except"
    /\ top = "analyze"
    /\ Finish(IF AnalyzeCatches(exc) THEN DegradedResult(exc) ELSE Escaped(exc))
    /\ UNCHANGED <<token, top, via, req, model_id, hf, exc, response, trackerVars,
                   calls, opposts, nops, threadVars,
                   health, http>>

----------------------------------------------------------------------------
(* Any other caller of the Remote Inference Client *)

DirectInvoke ==
    /\ pc = "idle"
    /\ nops < MaxOps
    /\ \E m \in supported_models, r \in 0..MaxRetriesArg :
        /\ hf'  = NewFrame(m, r)
        /\ via' = "direct"
        /\ pc'  = "hf_enter"
        /\ calls' = <<"direct">>
    /\ top' = "direct"
    /\ nops' = nops + 1
    /\ opposts' = 0
    /\ exc' = NoExc
    /\ req' = NoReq
    /\ model_id' = None
    /\ response' = 0
    /\ result' = NoResult
    /\ UNCHANGED <<token, trackerVars, threadVars,
                   health, http>>

\* the locals of a finished operation are gone
Idle ==
    /\ pc' = "idle"
    /\ top' = "none"
    /\ via' = "none"
    /\ req' = NoReq
    /\ model_id' = None
    /\ hf' = NoFrame
    /\ exc' = NoExc
    /\ response' = 0
    /\ result' = NoResult
    /\ calls' = <<>>
    /\ opposts' = 0
    /\ side' = NoSide
    /\ summary' = NoSummary
    /\ health' = NoHealth
    /\ http' = NoHttp

\* the direct caller has the invocation's value or exception
DirectDone ==
    /\ pc \in {"caller_return", "caller_except"}
    /\ top = "direct"
    /\ Idle
    /\ UNCHANGED <<token, last_errors, error_counts, tracked, nops, threadVars>>

\* the caller of analyze_content has taken the AnalysisResult
Deliver ==
    /\ pc = "done"
    /\ top = "analyze"
    /\ Idle
    /\ UNCHANGED <<token, last_errors, error_counts, tracked, nops, threadVars>>

\* the environment variable is set or unset between operations
SetToken ==
    /\ pc = "idle"
    /\ \E t \in Tokens \ {token} : token' = t
    /\ UNCHANGED <<pipeVars, trackerVars, nops, threadVars>>

----------------------------------------------------------------------------
(* The HTTP service: POST /ai-engine/analyze, GET /health and              *)
(* GET /monitoring/errors                                                  *)

\* the AnalysisType enumeration of schemas.py
SchemaTypes == {"code_review", "requirement_extraction",
                "tech_recommendation", "risk_assessment"}

\* a request body: its content is absent, the empty string or a text; its
\* analysis_type is absent or any string; its model is absent or any string
Contents   == {"missing", "empty", "text"}
HttpBodies == [content : Contents,
               analysis_type : AnalysisTypes \cup {"missing"},
               model : RequestModels]

\* mutant: any analysis_type string passes validation
ShapeValidAnyType(b) == b.content = "text" /\ b.analysis_type # "missing"

\* AnalysisRequest of schemas.py: content is required with min_length=1,
\* analysis_type is required and a member of AnalysisType
ShapeValid(b) == b.content = "text" /\ b.analysis_type \in SchemaTypes

\* the answer to a request: the request body it answers, the status code
\* and the `status` field of the answer
HttpAnswer(request, code, status) ==
    [request |-> request, code |-> code, status |-> status]

\* lines 148-185: StandardResponse(status="success") around the result;
\* a ValueError becomes 400, any other exception 500
AnalyzeAnswer(request, r, e) ==
    IF r.kind # "raised" THEN HttpAnswer(request, 200, "success")
    ELSE IF IsInstance(e, "ValueError") THEN HttpAnswer(request, 400, "error")
    ELSE HttpAnswer(request, 500, "error")

\* POST /ai-engine/analyze up to the first remote call: a body that fails
\* validation is answered 422 before the handler runs
PostAnalyze ==
    /\ pc = "idle"
    /\ nops < MaxOps
    /\ \E b \in HttpBodies :
        /\ top' = "analyze"
        /\ nops' = nops + 1
        /\ result' = NoResult
        /\ response' = 0
        /\ opposts' = 0
        /\ IF ~ShapeValid(b)
           THEN /\ http' = HttpAnswer(b, 422, "error")
                /\ pc'   = "responded"
                /\ req'  = NoReq
                /\ model_id' = None
                /\ exc'  = NoExc
                /\ hf'   = NoFrame
                /\ via'  = "none"
                /\ calls' = <<>>
           ELSE /\ http' = HttpAnswer(b, 0, "pending")
                /\ req'  = [analysis_type |-> b.analysis_type, model |-> b.model]
                /\ model_id' = ResolveModel(b.model)
                /\ IF ~Supported(ResolveModel(b.model))
                   THEN /\ exc' = Exc("ValueError", 0,
                                      "Unsupported model: " \o ResolveModel(b.model))
                        /\ pc'  = "caller_except"
                        /\ hf'  = NoFrame
                        /\ via' = "none"
                        /\ calls' = <<>>
                   ELSE /\ hf'  = NewFrame(DefaultModel, DefaultRetries)
                        /\ via' = "generate"
                        /\ pc'  = "hf_enter"
                        /\ calls' = <<"generate">>
                        /\ exc' = NoExc
    /\ UNCHANGED <<token, trackerVars, threadVars, health>>

\* the handler has the AnalysisResult and answers
Respond ==
    /\ pc = "done"
    /\ top = "analyze"
    /\ http' = AnalyzeAnswer(http.request, result, exc)
    /\ pc' = "responded"
    /\ UNCHANGED <<token, top, via, req, model_id, hf, exc, response, result,
                   trackerVars, calls, opposts, nops, threadVars, health>>

\* check_hf_api_health: _hf_request("google/flan-t5-base", ..., retries=1)
HealthCheck ==
    /\ pc = "idle"
    /\ nops < MaxOps
    /\ Invoke(DefaultModel, ProbeRetries, "probe")
    /\ top' = "health"
    /\ nops' = nops + 1
    /\ opposts' = 0
    /\ exc' = NoExc
    /\ req' = NoReq
    /\ model_id' = None
    /\ response' = 0
    /\ result' = NoResult
    /\ UNCHANGED <<token, trackerVars, threadVars, health, http>>

\* mutant: every probe failure is a connectivity issue
ProbeStatusNeverUnhealthy(returned, e) ==
    IF returned THEN "healthy" ELSE "degraded"

\* the status check_hf_api_health reports: healthy when _hf_request
\* returned, unhealthy on a ValueError, degraded on any other exception
ProbeStatus(returned, e) ==
    IF returned THEN "healthy"
    ELSE IF IsInstance(e, "ValueError") THEN "unhealthy"
    ELSE "degraded"

\* mutant: an unhealthy component makes the service unhealthy
EscalateToUnhealthy(overall) == "unhealthy"

\* overall_status = "degraded" if overall_status == "healthy" else "unhealthy"
Escalate(overall) == IF overall = "healthy" THEN "degraded" ELSE "unhealthy"

\* health_check: the overall status after the three component checks
OverallStatus(dispatcher, remote_api, models) ==
    LET o1 == IF dispatcher = "healthy" THEN "healthy" ELSE "unhealthy"
        o2 == IF remote_api # "healthy" THEN Escalate(o1) ELSE o1
    IN IF models # "healthy" THEN Escalate(o2) ELSE o2

\* GET /health once the probe is over: the dispatcher object exists and the
\* model catalogue is a literal, so both components are healthy
ProbeDone ==
    /\ pc \in {"caller_return", "caller_except"}
    /\ top = "health"
    /\ LET remote == ProbeStatus(pc = "caller_return", exc) IN
        /\ health' = [dispatcher |-> "healthy", remote_api |-> remote,
                      models |-> "healthy",
                      overall |-> OverallStatus("healthy", remote, "healthy")]
        /\ http' = HttpAnswer(NoBody, 200,
                              OverallStatus("healthy", remote, "healthy"))
    /\ pc' = "responded"
    /\ UNCHANGED <<token, top, via, req, model_id, hf, exc, response, result,
                   trackerVars, calls, opposts, nops, threadVars>>

\* mutant: the oldest events are reported
RecentErrorsOldest(h) == SubSeq(h, 1, Min(RecentLimit, Len(h)))

\* self.last_errors[-10:] if self.last_errors else []
RecentErrors(h) ==
    IF Len(h) = 0 THEN <<>> ELSE SubSeq(h, Max(1, Len(h) - RecentLimit + 1), Len(h))

\* get_error_summary; the error rate is not part of it
ErrorSummary(h, counts) ==
    [total_errors |-> Len(h), error_counts |-> counts,
     recent_errors |-> RecentErrors(h), error_rate |-> ""]

\* mutant: a history of 10 errors still counts as low
ErrorRateInclusive(total) ==
    IF total = 0 THEN "none"
    ELSE IF total <= 10 THEN "low"
    ELSE IF total < 50 THEN "medium"
    ELSE "high"

\* _generate_health_indicators, lines 441-448
ErrorRate(total) ==
    IF total = 0 THEN "none"
    ELSE IF total < 10 THEN "low"
    ELSE IF total < 50 THEN "medium"
    ELSE "high"

\* a direct call of error_tracker.get_error_summary()
Summary ==
    /\ pc = "idle"
    /\ \A t \in DOMAIN tcalls : tcalls[t] = 0
    /\ summary' = ErrorSummary(last_errors, error_counts)
    /\ UNCHANGED <<token, pipeVars, last_errors, error_counts, tracked, side,
                   nops, threadVars>>

\* GET /monitoring/errors: get_error_summary reads the tracker and
\* _generate_health_indicators grades its total
GetMonitoring ==
    /\ pc = "idle"
    /\ nops < MaxOps
    /\ top' = "monitoring"
    /\ nops' = nops + 1
    /\ summary' = [ErrorSummary(last_errors, error_counts) EXCEPT
                       !.error_rate = ErrorRate(ErrorSummary(last_errors, error_counts).total_errors)]
    /\ http' = HttpAnswer(NoBody, 200, "success")
    /\ pc' = "responded"
    /\ UNCHANGED <<token, via, req, model_id, hf, exc, response, result,
                   last_errors, error_counts, tracked, side,
                   calls, opposts, threadVars, health>>

\* the answer has been sent
Reply ==
    /\ pc = "responded"
    /\ Idle
    /\ UNCHANGED <<token, last_errors, error_counts, tracked, nops, threadVars>>

----------------------------------------------------------------------------
(* A sequential workload on the Error Tracker: track_error called directly *)

TrackInputs == {<<"RATE_LIMIT", "google/flan-t5-base">>,
                <<"RATE_LIMIT", "facebook/bart-large-mnli">>,
                <<"NETWORK_ERROR", "google/flan-t5-base">>}

MessageOf(error_type) == "HF failure: " \o error_type

\* one complete track_error call.  The workload picks any failure for its
\* first FreeCalls calls and again once the history is full; in between it
\* repeats the failure of the call before.
Track ==
    /\ pc = "idle"
    /\ \A t \in DOMAIN tcalls : tcalls[t] = 0
    /\ Len(tracked) < MaxTracks
    /\ \E in \in TrackInputs :
        /\ IF Len(tracked) < FreeCalls \/ Len(tracked) >= max_error_history
           THEN TRUE
           ELSE /\ tracked[Len(tracked)].error_type = in[1]
                /\ tracked[Len(tracked)].model_id = in[2]
        /\ TrackErrorWith(in[1], in[2], MessageOf(in[1]),
                          FALSE, FALSE, "sent", "created")
    /\ UNCHANGED <<token, pipeVars, nops, threadVars>>

----------------------------------------------------------------------------
(* A sequential workload on the Error Tracker with its side channels:      *)
(* track_error called directly, the webhook and the issue tracker          *)
(* configured or not, their calls ending in every way                      *)

NotifiedInputs == {<<"RATE_LIMIT", "google/flan-t5-base">>,
                   <<"NETWORK_ERROR", "google/flan-t5-base">>,
                   <<"QUOTA_EXCEEDED", "google/flan-t5-base">>}

TrackNotified ==
    /\ pc = "idle"
    /\ \A t \in DOMAIN tcalls : tcalls[t] = 0
    /\ Len(tracked) < MaxNotified
    /\ \E in \in NotifiedInputs :
        TrackError(in[1], in[2], MessageOf(in[1]))
    /\ UNCHANGED <<token, pipeVars, nops, threadVars>>

----------------------------------------------------------------------------
(* Concurrent track_error calls: one action per step a thread switch can   *)
(* separate (lines 56, 57, 58 and the read and the write of line 62)       *)

Threads == {1, 2}

ThreadInputs == {<<"RATE_LIMIT", "google/flan-t5-base">>,
                 <<"NETWORK_ERROR", "google/flan-t5-base">>}

\* the calls made one after the other before the threads start
WarmTrack ==
    /\ \A t \in Threads : tcalls[t] = 0
    /\ Len(tracked) < Warmup
    /\ TrackErrorWith("RATE_LIMIT", DefaultModel, MessageOf("RATE_LIMIT"),
                      FALSE, FALSE, "sent", "created")
    /\ UNCHANGED <<token, pipeVars, nops, threadVars>>

\* lines 45-53: the call starts and builds error_entry
TBegin(t) ==
    /\ tpc[t] = "idle"
    /\ tcalls[t] < CallsPerThread
    /\ \E in \in ThreadInputs :
        LET entry == ErrorEntry(Len(tracked) + 1, in[1], in[2], MessageOf(in[1]))
        IN /\ tentry' = [tentry EXCEPT ![t] = entry]
           /\ tracked' = Append(tracked, entry)
    /\ tcalls' = [tcalls EXCEPT ![t] = @ + 1]
    /\ tpc' = [tpc EXCEPT ![t] = "append"]
    /\ UNCHANGED <<token, pipeVars, last_errors, error_counts, nops, side, summary, tcount>>

\* line 56: self.last_errors.append(error_entry)
TAppend(t) ==
    /\ tpc[t] = "append"
    /\ last_errors' = Append(last_errors, tentry[t])
    /\ tpc' = [tpc EXCEPT ![t] = "check"]
    /\ UNCHANGED <<token, pipeVars, error_counts, tracked, nops, side, summary,
                   tentry, tcount, tcalls>>

\* line 57: if len(self.last_errors) > self.max_error_history
OverCap(h) == Len(h) > max_error_history

TCheck(t) ==
    /\ tpc[t] = "check"
    /\ tpc' = [tpc EXCEPT ![t] = IF OverCap(last_errors) THEN "pop" ELSE "get"]
    /\ UNCHANGED <<token, pipeVars, trackerVars, nops,
                   tentry, tcount, tcalls>>

\* line 58: self.last_errors.pop(0)
TPop(t) ==
    /\ tpc[t] = "pop"
    /\ last_errors' = Tail(last_errors)
    /\ tpc' = [tpc EXCEPT ![t] = "get"]
    /\ UNCHANGED <<token, pipeVars, error_counts, tracked, nops, side, summary,
                   tentry, tcount, tcalls>>

\* line 62, right-hand side: self.error_counts.get(error_key, 0)
TGet(t) ==
    /\ tpc[t] = "get"
    /\ tcount' = [tcount EXCEPT ![t] =
            CountOf(error_counts,
                    ErrorKey(tentry[t].error_type, tentry[t].model_id))]
    /\ tpc' = [tpc EXCEPT ![t] = "set"]
    /\ UNCHANGED <<token, pipeVars, trackerVars, nops,
                   tentry, tcalls>>

\* line 62, the store: self.error_counts[error_key] = ... + 1
TSet(t) ==
    /\ tpc[t] = "set"
    /\ error_counts' = SetCount(error_counts,
            ErrorKey(tentry[t].error_type, tentry[t].model_id), tcount[t] + 1)
    /\ tpc' = [tpc EXCEPT ![t] = "notify"]
    /\ UNCHANGED <<token, pipeVars, last_errors, tracked, nops, side, summary,
                   tentry, tcount, tcalls>>

\* line 71: self._send_to_monitoring(error_entry); the threads run where
\* neither the webhook nor the issue tracker is configured
TNotify(t) ==
    /\ tpc[t] = "notify"
    /\ side' = SendToMonitoring(tentry[t].error_type, tentry[t].model_id,
                                error_counts, FALSE, FALSE, "sent", "created")
    /\ tpc' = [tpc EXCEPT ![t] = "idle"]
    /\ UNCHANGED <<token, pipeVars, last_errors, error_counts, tracked, nops,
                   summary, tentry, tcount, tcalls>>

----------------------------------------------------------------------------
Init ==
    /\ token \in Tokens
    /\ pc = "idle"
    /\ top = "none"
    /\ via = "none"
    /\ req = NoReq
    /\ model_id = None
    /\ hf = NoFrame
    /\ exc = NoExc
    /\ response = 0
    /\ result = NoResult
    /\ last_errors = <<>>
    /\ error_counts = <<>>
    /\ tracked = <<>>
    /\ calls = <<>>
    /\ opposts = 0
    /\ nops = 0
    /\ tpc = [t \in Threads |-> "idle"]
    /\ tentry = [t \in Threads |-> ErrorEntry(0, "", "", "")]
    /\ tcount = [t \in Threads |-> 0]
    /\ tcalls = [t \in Threads |-> 0]
    /\ side = NoSide
    /\ summary = NoSummary
    /\ health = NoHealth
    /\ http = NoHttp

Next ==
    \/ AnalyzeContent
    \/ HfEnter
    \/ HfAttempt
    \/ HfExhausted
    \/ WrapperExcept
    \/ WrapperReturn
    \/ GenerateReturn
    \/ ClassifyReturn
    \/ AnalyzeExcept
    \/ DirectInvoke
    \/ DirectDone
    \/ Deliver
    \/ SetToken

Spec == Init /\ [][Next]_vars

\* the HTTP service
NextService ==
    \/ PostAnalyze
    \/ HealthCheck
    \/ GetMonitoring
    \/ HfEnter
    \/ HfAttempt
    \/ HfExhausted
    \/ WrapperExcept
    \/ WrapperReturn
    \/ GenerateReturn
    \/ ClassifyReturn
    \/ AnalyzeExcept
    \/ Respond
    \/ ProbeDone
    \/ Reply
    \/ SetToken

SpecService == Init /\ [][NextService]_vars

\* the sequential tracker workload
InitTracker == Init /\ token = "hf_token"

NextTracker ==
    \/ Track
    \/ Summary
    \/ GetMonitoring
    \/ Reply

SpecTracker == InitTracker /\ [][NextTracker]_vars

\* the tracker workload with the side channels
NextTickets == TrackNotified

SpecTickets == InitTracker /\ [][NextTickets]_vars

\* the concurrent tracker workload
NextConc ==
    \/ WarmTrack
    \/ \E t \in Threads : TBegin(t)
    \/ \E t \in Threads : TAppend(t)
    \/ \E t \in Threads : TCheck(t)
    \/ \E t \in Threads : TPop(t)
    \/ \E t \in Threads : TGet(t)
    \/ \E t \in Threads : TSet(t)
    \/ \E t \in Threads : TNotify(t)

SpecConc == InitTracker /\ [][NextConc]_vars

----------------------------------------------------------------------------
(* Properties *)

\* analyze_content has given its caller a result or an exception
AnalyzeDone == pc = "done" /\ top = "analyze"

\* the invocation is over: its value or exception is with the wrapper or beyond
InvocationOver == via # "none" /\ pc \notin {"idle", "hf_enter", "hf_loop"}

TokenPresent == token # None /\ token # ""

GenericRecommendation == <<"Review input parameters and try again">>

\* C1: analyze_content never raises to its caller: whatever the request and
\* whatever the remote calls do, what the caller gets is an AnalysisResult.
C1_AnalyzeNeverRaises ==
    AnalyzeDone => result.kind \in {"success", "degraded"}

\* an analysis whose remote call lost its connection still returned a result
C1_Witness ==
    /\ AnalyzeDone
    /\ exc.cls = "ConnectionError"
    /\ result.kind = "degraded"

\* C2: whenever a step of analyze_content fails (unsupported model, a remote
\* call failing or raising) the result is the degraded one: confidence 0.0,
\* results = {error: the failure's message, status: "failed"}, and the one
\* generic recommendation.
C2_FailureGivesDegradedResult ==
    (AnalyzeDone /\ (exc # NoExc \/ hf.outcome = "raised"
                       \/ model_id \notin supported_models
                       \/ (hf.outcome = "returned" /\ ~hf.seen200)))
    => /\ result.kind = "degraded"
       /\ result.confidence = 0
       /\ result.error = exc.msg
       /\ exc.msg # ""
       /\ result.status = "failed"
       /\ result.recommendations = GenericRecommendation

\* an analysis whose generation call ran out of attempts on 404 responses
C2_Witness ==
    /\ AnalyzeDone
    /\ exc.cls = "HTTPError"
    /\ exc.status = 404
    /\ result.error = "404 Error"

\* C3: when the resolved model is not in the registry, analyze_content
\* issues no remote call (no invocation, no POST) and returns the degraded
\* result with confidence 0.0, an error and a non-empty recommendation list.
C3_UnsupportedModelNoRemoteCall ==
    (top = "analyze" /\ model_id \notin supported_models)
    => /\ calls = <<>>
       /\ opposts = 0
       /\ hf = NoFrame
       /\ pc \in {"caller_except", "done"}
       /\ pc = "done" => /\ result.kind = "degraded"
                         /\ result.confidence = 0
                         /\ result.error # ""
                         /\ Len(result.recommendations) > 0

\* the analysis of a request naming an unknown model has returned
C3_Witness ==
    /\ AnalyzeDone
    /\ req.model = "unsupported/model"
    /\ result.kind = "degraded"
    /\ tracked = <<>>

\* C4: every AnalysisResult of analyze_content, of each strategy and of the
\* failure path, has its confidence within [0.0, 1.0] (0..1000 thousandths).
C4_ConfidenceInUnitInterval ==
    (AnalyzeDone /\ result.kind \in {"success", "degraded"})
    => (result.confidence >= 0 /\ result.confidence <= 1000)

\* a code review of a long response, clipped at 0.95
C4_Witness ==
    /\ AnalyzeDone
    /\ result.kind = "success"
    /\ req.analysis_type = "code_review"
    /\ response = 1000
    /\ result.confidence = 950

\* the part of C5 that does not depend on the body of the 200 response:
\* at most `retries` POSTs, none after a 200, and an invocation that ended
\* without a 200 and without a transport failure used all its attempts
AttemptsInOrder ==
    TokenPresent =>
       /\ hf.posts <= hf.retries
       /\ hf.afterOK = 0
       /\ (InvocationOver /\ ~hf.seen200 /\ ~hf.transport)
             => (hf.posts = hf.retries /\ hf.i = hf.retries)
       /\ (hf.seen200 /\ hf.status = 200) => InvocationOver

\* C5 as claimed: with a token, an invocation issues at most max_retries
\* POSTs one after the other; the first 200 ends it by returning that
\* response's parsed body, with no further POST; a non-200 response moves
\* on to the next attempt while attempts remain.
C5_First200ReturnsBody ==
    /\ AttemptsInOrder
    /\ (TokenPresent /\ hf.seen200)
          => /\ pc # "hf_except"
             /\ hf.outcome # "raised"
             /\ pc \in {"hf_return", "caller_return"} => hf.value = hf.body

\* C5 amended: as C5, but the first 200 ends the invocation by returning the
\* parsed body when the body is JSON and by raising the decode error when
\* it is not; in both cases no further POST is issued.
C5_First200EndsInvocation ==
    /\ AttemptsInOrder
    /\ (TokenPresent /\ hf.seen200 /\ hf.body.kind # "notjson")
          => /\ pc # "hf_except"
             /\ hf.outcome # "raised"
             /\ pc \in {"hf_return", "caller_return"} => hf.value = hf.body
    /\ (TokenPresent /\ hf.seen200 /\ hf.body.kind = "notjson")
          => /\ pc \notin {"hf_return", "caller_return"}
             /\ hf.outcome # "returned"
             /\ exc.cls = "JSONDecodeError"

\* an invocation whose third attempt got the 200 returned its body
C5_Witness ==
    /\ pc = "caller_return"
    /\ hf.retries = 3
    /\ hf.posts = 3
    /\ hf.seen200
    /\ hf.value = hf.body
    /\ hf.value.kind = "gen"

\* C6: when all attempts of an invocation were answered and none with 200,
\* the invocation fails with an HTTP error carrying the status code of the
\* last response, whatever that code is; it never returns a value.
C6_ExhaustionRaisesHTTPError ==
    (InvocationOver /\ TokenPresent /\ hf.posts > 0
        /\ ~hf.seen200 /\ ~hf.transport)
    => /\ pc \notin {"hf_return", "caller_return"}
       /\ hf.outcome # "returned"
       /\ exc.cls = "HTTPError"
       /\ exc.status = hf.status

\* C7: with the token absent or empty at the time of the call, the
\* invocation fails with the configuration error, no POST was issued, and
\* the call is not made again.
C7_MissingTokenFailsBeforeNetwork ==
    (InvocationOver /\ (token = None \/ token = ""))
    => /\ hf.posts = 0
       /\ opposts = 0
       /\ Len(calls) = 1
       /\ exc.cls = "ValueError"
       /\ exc.msg = "HUGGINGFACE_API_TOKEN environment variable not set"
       /\ pc \in {"hf_except", "caller_except", "done"}
       /\ hf.outcome # "returned"

\* an invocation made with the empty token has raised to its caller
C7_Witness ==
    /\ token = ""
    /\ pc = "caller_except"
    /\ hf.outcome = "raised"
    /\ hf.retries = 3
    /\ hf.posts = 0

\* the key of a tracked event
KeyOf(entry) == entry.error_type \o ":" \o entry.model_id

\* the number of track_error calls made with a key
CallsWith(key) ==
    Cardinality({i \in 1..Len(tracked) : KeyOf(tracked[i]) = key})

TrackedKeys == {KeyOf(tracked[i]) : i \in 1..Len(tracked)}

\* C8: after any sequence of track() calls on a fresh tracker, the counts
\* map holds, for every key "{error_type}:{model_id}", exactly the number
\* of calls made with that key.
C8_CountsEqualCalls ==
    /\ DOMAIN error_counts = TrackedKeys
    /\ \A key \in TrackedKeys : error_counts[key] = CallsWith(key)

\* more than 100 calls over two keys
C8_Witness ==
    /\ Len(tracked) > 100
    /\ Cardinality(DOMAIN error_counts) = 2
    /\ \E key \in DOMAIN error_counts : error_counts[key] > 50

\* C9: after N sequential track() calls on a fresh tracker the history has
\* length min(N, 100) and is the most recent min(N, 100) events in the
\* order they were tracked.
C9_HistoryIsRecentSuffix ==
    LET N == Len(tracked)
        L == Min(N, 100)
    IN /\ Len(last_errors) = L
       /\ \A i \in 1..L : last_errors[i] = tracked[N - L + i]

\* 102 calls: the two oldest events are gone
C9_Witness ==
    /\ Len(tracked) = 102
    /\ Len(last_errors) = 100
    /\ last_errors[1].timestamp = 3
    /\ last_errors[100].timestamp = 102

\* C10: in every reachable state of the tracker, the states between the
\* append and the eviction of a call and every interleaving of concurrent
\* calls included, the history holds at most 100 events.
C10_HistoryWithinCap == Len(last_errors) <= 100

----------------------------------------------------------------------------
\* C11: when threads have called track() concurrently and every call has
\* returned, the count of each key equals the number of calls made with that
\* key, so the counts sum to the number of calls: no update is lost.
Quiescent == \A t \in Threads : tpc[t] = "idle"

C11_NoLostUpdate ==
    Quiescent =>
        \A key \in TrackedKeys \cup DOMAIN error_counts :
            CountOf(error_counts, key) = CallsWith(key)

----------------------------------------------------------------------------
----------------------------------------------------------------------------
\* the error type the cause of a failed invocation calls for: AUTH_ERROR for
\* a missing token, NETWORK_ERROR when a POST got no response, the type of
\* the last status when every attempt was answered with a non-200 status,
\* UNKNOWN_ERROR for anything else
ExpectedErrorType ==
    IF ~TokenPresent THEN "AUTH_ERROR"
    ELSE IF hf.transport THEN "NETWORK_ERROR"
    ELSE IF hf.posts > 0 /\ ~hf.seen200 THEN
         (IF hf.status = 429 THEN "RATE_LIMIT"
          ELSE IF hf.status = 402 THEN "QUOTA_EXCEEDED"
          ELSE IF hf.status = 503 THEN "SERVICE_UNAVAILABLE"
          ELSE "HTTP_ERROR")
    ELSE "UNKNOWN_ERROR"

\* the wrapper has just recorded the failure of the invocation
JustRecorded == pc = "caller_except" /\ hf.outcome = "raised"

\* C13: the error event of a failed invocation carries the type its cause
\* calls for (429 RATE_LIMIT, 402 QUOTA_EXCEEDED, 503 SERVICE_UNAVAILABLE,
\* any other status HTTP_ERROR, transport failure NETWORK_ERROR, missing
\* token AUTH_ERROR, anything else UNKNOWN_ERROR) and the id of the model
\* that was invoked.
C13_ErrorTypeFollowsCause ==
    JustRecorded =>
        /\ tracked[Len(tracked)].error_type = ExpectedErrorType
        /\ tracked[Len(tracked)].model_id = hf.model_id

----------------------------------------------------------------------------
\* the invocation is back with its caller
InvocationBack == via # "none" /\ pc \in {"caller_return", "caller_except"}

\* the invocation obtained a 200 response and returned its body
InvocationSucceeded == hf.outcome = "returned" /\ hf.seen200

\* the error events recorded since the invocation started
EventsOfInvocation == Len(tracked) - hf.t0

\* C14: an invocation that failed, whoever made it and after however many
\* attempts, has recorded exactly one error event; an invocation that
\* succeeded has recorded none, also when earlier attempts were answered
\* with a non-200 status.
C14_OneEventPerFailure ==
    InvocationBack =>
        EventsOfInvocation = (IF InvocationSucceeded THEN 0 ELSE 1)

----------------------------------------------------------------------------
\* the error_entry of the track_error call made last
LastTracked == tracked[Len(tracked)]

\* the last track_error call made the ticket POST
TicketAttempted == Len(tracked) > 0 /\ side.ticket # "none"

\* C15: a track_error call attempts a ticket only where the issue tracker is
\* configured and either the calls made with its key, this one included,
\* number at least 5 or its type is AUTH_ERROR or QUOTA_EXCEEDED; for any
\* other type no ticket is attempted before the fifth call.
C15_TicketOnlyWhenDue ==
    TicketAttempted =>
        /\ side.issues
        /\ \/ CallsWith(KeyOf(LastTracked)) >= 5
           \/ LastTracked.error_type \in {"AUTH_ERROR", "QUOTA_EXCEEDED"}

\* the fifth call with a RATE_LIMIT key attempts the ticket
C15_Witness ==
    /\ TicketAttempted
    /\ LastTracked.error_type = "RATE_LIMIT"
    /\ CallsWith(KeyOf(LastTracked)) = 5

----------------------------------------------------------------------------
\* C16: whatever the webhook call and the issue-tracker call do (success,
\* another status, an exception), the track_error call of a failed
\* invocation completes: the event is appended, its count is incremented,
\* and the caller of the invocation gets the exception the invocation
\* raised.
C16_SideChannelsNeverPropagate ==
    JustRecorded =>
        /\ ~side.escaped
        /\ exc = hf.cause
        /\ EventsOfInvocation = 1
        /\ last_errors[Len(last_errors)] = LastTracked
        /\ CountOf(error_counts, KeyOf(LastTracked))
               = CallsWith(KeyOf(LastTracked))

\* the webhook answered with a non-success status and the ticket POST raised
C16_Witness ==
    /\ JustRecorded
    /\ side.webhook = "rejected"
    /\ side.ticket = "raised"

----------------------------------------------------------------------------
\* GET /health has its answer
HealthAnswered == pc = "responded" /\ top = "health"

\* C17: the overall health status is the worst of the three component
\* statuses under healthy < degraded < unhealthy: unhealthy when a component
\* is unhealthy (as the remote API is without a token), degraded when a
\* component is degraded and none is unhealthy, healthy otherwise.
C17_OverallIsWorstComponent ==
    HealthAnswered =>
        LET components == {health.dispatcher, health.remote_api, health.models}
        IN health.overall =
               IF "unhealthy" \in components THEN "unhealthy"
               ELSE IF "degraded" \in components THEN "degraded"
               ELSE "healthy"

----------------------------------------------------------------------------
\* C18: a health check makes exactly one probe invocation, with
\* max_retries = 1 and so at most one POST; the remote API component is
\* healthy when the probe succeeded, unhealthy exactly when it failed for a
\* missing token, and degraded for every other failure of the probe.
C18_ProbeDecidesRemoteStatus ==
    HealthAnswered =>
        /\ calls = <<"probe">>
        /\ hf.retries = 1
        /\ opposts <= 1
        /\ health.remote_api =
               IF InvocationSucceeded THEN "healthy"
               ELSE IF ~TokenPresent THEN "unhealthy"
               ELSE "degraded"

----------------------------------------------------------------------------
\* POST /ai-engine/analyze has its answer
AnalyzeAnswered == pc = "responded" /\ top = "analyze"

\* the core was not invoked: no result, no invocation, no POST
CoreNotInvoked ==
    /\ result = NoResult
    /\ hf = NoFrame
    /\ calls = <<>>
    /\ opposts = 0

----------------------------------------------------------------------------
\* analyze_content returned the result of its try block
AnalysisSucceeded == AnalyzeDone /\ result.kind = "success"

\* C20 as stated: the recommendations of every successful analysis, under
\* each of the five strategies, are exactly 3 strings.
C20_ThreeRecommendations ==
    AnalysisSucceeded => Len(result.recommendations) = 3

\* C20, amended: the recommendations of a successful analysis depend on the
\* analysis type alone: the 3 canned strings of the type for code_review,
\* requirement_extraction, tech_recommendation and risk_assessment, and the
\* empty list under the default (general) strategy.
C20_RecommendationsByType ==
    AnalysisSucceeded =>
        LET t == req.analysis_type
            r == result.recommendations
        IN IF t = "code_review"
           THEN r = <<"Consider implementing automated testing",
                      "Review code documentation",
                      "Ensure proper error handling">>
           ELSE IF t = "requirement_extraction"
           THEN r = <<"Prioritize requirements by business value",
                      "Validate requirements with stakeholders",
                      "Consider technical feasibility">>
           ELSE IF t = "tech_recommendation"
           THEN r = <<"Evaluate team expertise with recommended technologies",
                      "Consider scalability requirements",
                      "Assess maintenance and support costs">>
           ELSE IF t = "risk_assessment"
           THEN r = <<"Develop contingency plans for high-risk items",
                      "Regular risk assessment reviews",
                      "Implement monitoring and alerting">>
           ELSE r = <<>>

\* a successful analysis under the default strategy
C20_Witness ==
    /\ AnalysisSucceeded
    /\ req.analysis_type = "general"
    /\ result.recommendations = <<>>

----------------------------------------------------------------------------
\* C21: the confidence of a successful code_review analysis is
\* min(0.95, max(0.6, L/500)) for a response of L characters (in
\* thousandths: 2L clipped to 600..950): never below 0.6, never above 0.95,
\* exactly 0.6 for a response of 12 characters, and no shorter response
\* gets a higher confidence.
C21_CodeReviewConfidence ==
    (AnalysisSucceeded /\ req.analysis_type = "code_review") =>
        /\ result.confidence =
               (IF 2 * response < 600 THEN 600
                ELSE IF 2 * response > 950 THEN 950
                ELSE 2 * response)
        /\ result.confidence >= 600
        /\ result.confidence <= 950
        /\ response = 12 => result.confidence = 600
        /\ \A shorter \in TextLens :
               shorter <= response =>
                   CodeReviewConfidence(shorter) <= result.confidence

\* a code review whose response has 12 characters
C21_Witness ==
    /\ AnalysisSucceeded
    /\ req.analysis_type = "code_review"
    /\ response = 12
    /\ result.confidence = 600

----------------------------------------------------------------------------
\* C22: the confidence of a successful analysis other than code_review
\* depends on the analysis type only and, for requirement_extraction, on
\* the classification having returned a label: 0.8 with at least one label
\* and 0.6 with none, 0.75 for tech_recommendation, 0.7 for
\* risk_assessment, 0.8 under the default strategy.
C22_ConfidenceByType ==
    (AnalysisSucceeded /\ req.analysis_type # "code_review") =>
        result.confidence =
            IF req.analysis_type = "requirement_extraction"
            THEN (IF hf.value.kind = "cls" /\ hf.value.n >= 1
                  THEN 800 ELSE 600)
            ELSE IF req.analysis_type = "tech_recommendation" THEN 750
            ELSE IF req.analysis_type = "risk_assessment" THEN 700
            ELSE 800

\* a requirement extraction whose classification returned no label
C22_Witness ==
    /\ AnalysisSucceeded
    /\ req.analysis_type = "requirement_extraction"
    /\ hf.model_id = ClassifyModel
    /\ hf.value.n = 0
    /\ result.confidence = 600

----------------------------------------------------------------------------
\* C23: get_error_summary is a pure read.  Whenever it is called between
\* track_error calls, the history and the counts are what they were before
\* the call, and its recent list is the latest min(10, history length)
\* events, in the order they were tracked.
C23_SummaryIsPureRead ==
    [][summary' # NoSummary =>
          /\ last_errors' = last_errors
          /\ error_counts' = error_counts
          /\ Len(summary'.recent_errors) <= 10
          /\ Len(summary'.recent_errors) = Min(10, Len(last_errors))
          /\ \A i \in 1..Len(summary'.recent_errors) :
                 summary'.recent_errors[i] =
                     tracked[Len(tracked) - Len(summary'.recent_errors) + i]
      ]_vars

\* a summary taken after more than 100 errors
C23_Witness ==
    /\ summary # NoSummary
    /\ Len(tracked) > 100
    /\ Len(summary.recent_errors) = 10
    /\ summary.recent_errors[10] = tracked[Len(tracked)]

----------------------------------------------------------------------------
\* C24: an analysis that reaches its strategy starts with the generation
\* call; the classification call follows only in a requirement_extraction
\* analysis and only after the generation call returned.  A successful
\* requirement_extraction has made exactly the two calls in that order,
\* every other successful analysis exactly the one, and an analysis in
\* which a call failed ends with the degraded result, which carries nothing
\* of a partial result.
C24_GenerateThenClassify ==
    [][/\ (top = "analyze" /\ calls' # calls /\ Len(calls') = 2) =>
              /\ calls' = <<"generate", "classify">>
              /\ req.analysis_type = "requirement_extraction"
              /\ pc = "caller_return"
              /\ hf.model_id = DefaultModel
              /\ hf.outcome = "returned"
       /\ (pc' = "done" /\ top' = "analyze" /\ Supported(model_id')) =>
              /\ Len(calls') \in 1..2
              /\ calls'[1] = "generate"
              /\ result'.kind = "success" =>
                     calls' = IF req'.analysis_type = "requirement_extraction"
                              THEN <<"generate", "classify">>
                              ELSE <<"generate">>
              /\ result'.kind # "success" =>
                     /\ result'.kind = "degraded"
                     /\ result'.status = "failed"
                     /\ result'.analysis_type = ""
                     /\ result'.model_used = ""
      ]_vars

\* a requirement extraction whose classification call failed
C24_Witness ==
    /\ AnalyzeDone
    /\ req.analysis_type = "requirement_extraction"
    /\ calls = <<"generate", "classify">>
    /\ hf.outcome = "raised"
    /\ result.kind = "degraded"

----------------------------------------------------------------------------
\* C25: an event of type AUTH_ERROR comes from an invocation that found the
\* token missing before any network call: the invocation made no POST.
C25_AuthErrorBeforeNetwork ==
    (JustRecorded /\ LastTracked.error_type = "AUTH_ERROR") =>
        /\ hf.posts = 0
        /\ ~TokenPresent

----------------------------------------------------------------------------
\* C26: the two notifications of a track_error call are independent: where
\* the issue tracker is configured and the ticket is due (at least 5 calls
\* with the key, or type AUTH_ERROR or QUOTA_EXCEEDED), the ticket POST is
\* made whether the webhook is configured or not and whether its call
\* succeeded, was answered with another status, or raised.
C26_TicketIndependentOfWebhook ==
    (/\ Len(tracked) > 0
     /\ side.issues
     /\ \/ CallsWith(KeyOf(LastTracked)) >= 5
        \/ LastTracked.error_type \in {"AUTH_ERROR", "QUOTA_EXCEEDED"})
    => side.ticket # "none"

----------------------------------------------------------------------------
\* C27: the model a successful analysis reports in results.model_used, the
\* resolved model of the request, is the model its generation call, the
\* first invocation of the analysis, was issued against.
C27_ModelUsedIsModelInvoked ==
    AnalysisSucceeded =>
        /\ result.model_used = ResolveModel(req.model)
        /\ hf.first = result.model_used

----------------------------------------------------------------------------
\* C28: once the track_error calls made on a fresh tracker, concurrent ones
\* included, have all returned, the history holds min(N, 100) of the N
\* events: whatever the interleaving of append, length check and eviction,
\* no more events were evicted than the cap requires.
C28_NoOverEviction ==
    Quiescent => Len(last_errors) = Min(Len(tracked), 100)

----------------------------------------------------------------------------
\* C29: a POST that raises instead of returning a response ends the
\* invocation at once: the loop is not re-entered and nothing is returned,
\* also when attempts remain, and the wrapper records the invocation once,
\* as NETWORK_ERROR for the model invoked.
C29_TransportFailureEndsInvocation ==
    hf.transport =>
        /\ pc \notin {"hf_loop", "hf_return", "caller_return"}
        /\ hf.posts <= hf.retries
        /\ hf.outcome # "returned"
        /\ hf.outcome = "raised" =>
               /\ EventsOfInvocation = 1
               /\ LastTracked.error_type = "NETWORK_ERROR"
               /\ LastTracked.model_id = hf.model_id
               /\ hf.cause.cls = "ConnectionError"

\* the second of three attempts failed in transport
C29_Witness ==
    /\ JustRecorded
    /\ hf.transport
    /\ hf.posts = 2
    /\ hf.retries = 3
    /\ LastTracked.error_type = "NETWORK_ERROR"

----------------------------------------------------------------------------
\* the sum of the counts of a counts map
RECURSIVE SumOver(_, _)
SumOver(counts, keys) ==
    IF keys = {} THEN 0
    ELSE LET k == CHOOSE x \in keys : TRUE
         IN counts[k] + SumOver(counts, keys \ {k})

SumCounts(counts) == SumOver(counts, DOMAIN counts)

\* C30: with track_error called sequentially, the total of a summary is the
\* length of the history, min(number of calls, 100): at most 100, and below
\* the sum of the counts once more than 100 errors were tracked.  The error
\* rate of /monitoring/errors is graded on that capped total: none for 0,
\* low below 10, medium below 50, high from 50 on.
C30_TotalIsCappedHistoryLength ==
    summary # NoSummary =>
        /\ summary.total_errors = Len(last_errors)
        /\ summary.total_errors = Min(Len(tracked), 100)
        /\ summary.total_errors <= 100
        /\ Len(tracked) > 100 =>
               summary.total_errors < SumCounts(summary.error_counts)
        /\ summary.error_rate # "" =>
               summary.error_rate =
                   IF summary.total_errors = 0 THEN "none"
                   ELSE IF summary.total_errors < 10 THEN "low"
                   ELSE IF summary.total_errors < 50 THEN "medium"
                   ELSE "high"

\* /monitoring/errors after more than 100 errors
C30_Witness ==
    /\ summary # NoSummary
    /\ Len(tracked) > 100
    /\ summary.total_errors = 100
    /\ SumCounts(summary.error_counts) = Len(tracked)
    /\ summary.error_rate = "high"
====
